---- MODULE Spec2Model ----
(***************************************************************************)
(* constrained_loaders: LoaderSpec (with clone), the configurable loader   *)
(* builder session (apply_extension / add_sort / add_filter / set_offset / *)
(* set_limit / set_page / build) and the two SQLAlchemy builders.          *)
(***************************************************************************)
EXTENDS Integers, Sequences, FiniteSets, TLC

\* ------------------------------------------------------------------ bounds
\* largest integer offered as page / offset / limit (the smallest is -1)
MaxVal == 1
\* longest list of transforms a working query may carry
MaxTrans == 3
\* how many times build() is called on one builder
MaxBuilds == 2
\* how many container mutations are made on the specs around a clone()
MaxMut == 3

VARIABLES
    kind,       \* which concrete builder: "simple" (SASimpleLoaderBuilder) or "complex"
    query,      \* the builder's working query, self._query
    applied,    \* names of the extensions applied in this session
    loader,     \* the query the most recently built Loader is bound to
    nloaders,   \* number of Loader objects build() has returned
    call,       \* the last call made on the builder and its outcome
    heap,       \* the container objects (dicts and lists) of the LoaderSpec objects
    s,          \* the original LoaderSpec: its four fields, each a container address
    c,          \* the clone, or NoSpec before clone() was called
    last,       \* the last operation made on the specs
    nmut        \* number of container mutations made so far

bvars == <<kind, query, applied, loader, nloaders, call>>
svars == <<heap, s, c, last, nmut>>
vars == <<kind, query, applied, loader, nloaders, call, heap, s, c, last, nmut>>

\* ------------------------------------------------------------------ values
\* An argument of set_offset / set_limit / set_page: a Python int, or a number
\* int() cannot convert (float("nan")); None is the unset limit/offset of a query.
IntV(n) == [k |-> "int", n |-> n]
NaN == [k |-> "nan", n |-> 0]
None == [k |-> "none", n |-> 0]
IsInt(v) == v.k = "int"
IsNonNeg(v) == v.k = "int" /\ v.n >= 0
IsNeg(v) == v.k = "int" /\ v.n < 0
Vals == {IntV(n) : n \in -1..MaxVal} \cup {NaN}

\* page * items_per_page as Python computes it: int * int, and nan * x = nan
Mul(a, b) == IF IsInt(a) /\ IsInt(b) THEN IntV(a.n * b.n) ELSE NaN

\* ------------------------------------------------------------------ the spec a builder is given
SortDirection == {"ASC", "DESC", "UNSPECIFIED"}

LoaderSpecPiece(required) == [required_extensions |-> required]

\* The LoaderSpec of the end-to-end scenario, plus a filter that needs two extensions.
TheSpec ==
    [sortable_fields |->
        [created_at |-> LoaderSpecPiece(<<>>),
         author_name |-> LoaderSpecPiece(<<"with_author">>)],
     default_sort_by |-> <<[sort |-> "created_at", direction |-> "ASC"]>>,
     filterable_fields |->
        [status |-> [eq |-> LoaderSpecPiece(<<>>)],
         author_name |-> [eq |-> LoaderSpecPiece(<<"with_author">>),
                          like |-> LoaderSpecPiece(<<"with_tags", "with_author">>)]],
     extensions |->
        [with_author |-> LoaderSpecPiece(<<>>),
         with_tags |-> LoaderSpecPiece(<<>>)]]

\* names a caller may send: the declared ones and one that is not declared
FieldNames == {"status", "author_name", "created_at", "missing"}
OperatorNames == {"eq", "like"}
ExtensionNames == {"with_author", "with_tags", "missing"}
\* the directions a caller asks for
Directions == SortDirection \ {"UNSPECIFIED"}

\* ------------------------------------------------------------------ queries
\* A query is what has been done to the bare query: the transforms applied, in
\* order, and the limit / offset set on it.
BareQuery(k) ==
    [repr |-> IF k = "simple" THEN "Select" ELSE "BuiltQuery",
     trans |-> <<>>, limit |-> None, offset |-> None]

ExtensionTransform(name) == [piece |-> "extension", field |-> name, op |-> "", arg |-> ""]
SortTransform(field, direction) == [piece |-> "sort", field |-> field, op |-> "", arg |-> direction]
FilterTransform(field, operator) == [piece |-> "filter", field |-> field, op |-> operator, arg |-> "value"]

\* LoaderExtension.apply_extension / QuerySort.apply_sorting / QueryFilter.apply_filter
apply_transform(q, t) == [q EXCEPT !.trans = Append(@, t)]

\* a builder's state while a call runs: the working query, the applied set, the error raised
Ok(q, a) == [query |-> q, applied |-> a, err |-> "none"]
Raise(b, e) == [b EXCEPT !.err = e]

\* ------------------------------------------------------------------ the builder's base (LoaderBuilderBase)
\* apply_extension marking the name applied before it looks the extension up
apply_extension_marking(b, name) ==
    IF name \notin DOMAIN TheSpec.extensions
    THEN [b EXCEPT !.applied = @ \cup {name}, !.err = "NotFound"]
    ELSE IF name \in b.applied THEN b
    ELSE [b EXCEPT !.query = apply_transform(@, ExtensionTransform(name)),
                   !.applied = @ \cup {name}]

\* apply_extension without the check of the applied set
apply_extension_again(b, name) ==
    IF name \notin DOMAIN TheSpec.extensions THEN Raise(b, "NotFound")
    ELSE [b EXCEPT !.query = apply_transform(@, ExtensionTransform(name)),
                   !.applied = @ \cup {name}]

\* apply_extension(name): not-found if the spec has no such extension; a no-op if it
\* was applied in this session; otherwise the extension's transform is applied to
\* the working query and the name is marked applied.
apply_extension(b, name) ==
    IF name \notin DOMAIN TheSpec.extensions THEN Raise(b, "NotFound")
    ELSE IF name \in b.applied THEN b
    ELSE [b EXCEPT !.query = apply_transform(@, ExtensionTransform(name)),
                   !.applied = @ \cup {name}]

\* the prerequisites of a piece, applied in the listed order through apply_extension;
\* the first failure ends the call
RECURSIVE apply_required(_, _)
apply_required(b, required) ==
    IF required = <<>> \/ b.err # "none" THEN b
    ELSE apply_required(apply_extension(b, Head(required)), Tail(required))

\* add_sort(field, direction): not-found if the field is not sortable; otherwise the
\* sort's required extensions, then its apply_sorting
add_sort(b, field, direction) ==
    IF field \notin DOMAIN TheSpec.sortable_fields THEN Raise(b, "NotFound")
    ELSE LET r == apply_required(b, TheSpec.sortable_fields[field].required_extensions)
         IN  IF r.err # "none" THEN r
             ELSE [r EXCEPT !.query = apply_transform(@, SortTransform(field, direction))]

\* add_filter(field, operator): not-found if the field, or the operator of the field,
\* is not registered; otherwise the filter's required extensions, then its apply_filter
add_filter(b, field, operator) ==
    IF field \notin DOMAIN TheSpec.filterable_fields THEN Raise(b, "NotFound")
    ELSE IF operator \notin DOMAIN TheSpec.filterable_fields[field] THEN Raise(b, "NotFound")
    ELSE LET r == apply_required(b, TheSpec.filterable_fields[field][operator].required_extensions)
         IN  IF r.err # "none" THEN r
             ELSE [r EXCEPT !.query = apply_transform(@, FilterTransform(field, operator))]

\* ------------------------------------------------------------------ the SQLAlchemy builders
\* Select.offset(v) / Select.limit(v): the Select with that offset / limit; any
\* integer, negative ones too, is taken as it is
SelectOffset(q, v) == [q EXCEPT !.offset = v]
SelectLimit(q, v) == [q EXCEPT !.limit = v]

\* SASimpleLoaderBuilder.set_offset: self._query = self._query.offset(offset).
\* Select.offset and Select.limit coerce a number with int(): a non-integer one
\* (nan) raises there, before self._query is assigned.
SASimple_set_offset(b, offset) ==
    IF ~IsInt(offset) THEN Raise(b, "ValueError")
    ELSE [b EXCEPT !.query = SelectOffset(@, offset)]

\* SASimpleLoaderBuilder.set_limit: self._query = self._query.limit(limit)
SASimple_set_limit(b, limit) ==
    IF ~IsInt(limit) THEN Raise(b, "ValueError")
    ELSE [b EXCEPT !.query = SelectLimit(@, limit)]

\* SAComplexLoaderBuilder.set_offset / set_limit: pass
SAComplex_set_offset(b, offset) == b
SAComplex_set_limit(b, limit) == b

set_offset(k, b, offset) ==
    IF k = "simple" THEN SASimple_set_offset(b, offset) ELSE SAComplex_set_offset(b, offset)
set_limit(k, b, limit) ==
    IF k = "simple" THEN SASimple_set_limit(b, limit) ELSE SAComplex_set_limit(b, limit)

\* one invocation of set_limit / set_offset made by set_page
Invocation(m, a, r) == [m |-> m, a |-> a, ok |-> r.err = "none"]

\* set_page with pages counted from one: offset (page - 1) * items_per_page
set_page_one_based(k, b, page, items_per_page) ==
    LET r1 == set_limit(k, b, items_per_page)
        t1 == <<Invocation("set_limit", items_per_page, r1)>>
    IN  IF r1.err # "none" THEN [b |-> r1, trace |-> t1]
        ELSE LET a2 == IF IsInt(page) THEN Mul(IntV(page.n - 1), items_per_page) ELSE NaN
                 r2 == set_offset(k, r1, a2)
             IN  [b |-> r2, trace |-> Append(t1, Invocation("set_offset", a2, r2))]

\* set_page undoing set_limit when set_offset raises
set_page_atomic(k, b, page, items_per_page) ==
    LET r1 == set_limit(k, b, items_per_page)
        t1 == <<Invocation("set_limit", items_per_page, r1)>>
    IN  IF r1.err # "none" THEN [b |-> r1, trace |-> t1]
        ELSE LET a2 == Mul(page, items_per_page)
                 r2 == set_offset(k, r1, a2)
             IN  [b |-> IF r2.err # "none" THEN Raise(b, r2.err) ELSE r2,
                  trace |-> Append(t1, Invocation("set_offset", a2, r2))]

\* ConfigurableLoaderBuilder.set_page: set_limit(items_per_page), then
\* set_offset(page * items_per_page); an exception of the first ends the call.
\* The result carries the invocations made, in order.
set_page(k, b, page, items_per_page) ==
    LET r1 == set_limit(k, b, items_per_page)
        t1 == <<Invocation("set_limit", items_per_page, r1)>>
    IN  IF r1.err # "none" THEN [b |-> r1, trace |-> t1]
        ELSE LET a2 == Mul(page, items_per_page)
                 r2 == set_offset(k, r1, a2)
             IN  [b |-> r2, trace |-> Append(t1, Invocation("set_offset", a2, r2))]

\* BuiltQuery.build_select(): the Select a BuiltQuery renders to
build_select(q) == [q EXCEPT !.repr = "Select"]

\* build handing its query over to the Loader and starting again from the bare query
build_consuming(k, b) ==
    [b |-> [b EXCEPT !.query = BareQuery(k)],
     loader |-> IF k = "simple" THEN b.query ELSE build_select(b.query)]

\* SASimpleLoaderBuilder.build: SALoader(self._query, self._session)
\* SAComplexLoaderBuilder.build: SALoader(self._query.build_select(), self._session)
\* The result is the builder after the call and the query the new Loader is bound to.
build(k, b) ==
    [b |-> b, loader |-> IF k = "simple" THEN b.query ELSE build_select(b.query)]

\* ------------------------------------------------------------------ the builder session
NoCall == [op |-> "new", args |-> <<>>, err |-> "none", trace |-> <<>>]
Self == Ok(query, applied)

\* a new builder of concrete class k, given TheSpec and the bare query
NewBuilder(k) ==
    /\ kind = k
    /\ query = BareQuery(k)
    /\ applied = {}
    /\ loader = None
    /\ nloaders = 0
    /\ call = NoCall

\* the builder takes the state a call left, and the call is recorded
Returned(op, args, r, trace) ==
    /\ Len(r.query.trans) <= MaxTrans
    /\ query' = r.query
    /\ applied' = r.applied
    /\ call' = [op |-> op, args |-> args, err |-> r.err, trace |-> trace]

ApplyExtension ==
    \E name \in ExtensionNames :
        /\ Returned("apply_extension", <<name>>, apply_extension(Self, name), <<>>)
        /\ UNCHANGED <<kind, loader, nloaders>>

AddSort ==
    \E field \in FieldNames, direction \in Directions :
        /\ Returned("add_sort", <<field, direction>>, add_sort(Self, field, direction), <<>>)
        /\ UNCHANGED <<kind, loader, nloaders>>

AddFilter ==
    \E field \in FieldNames, operator \in OperatorNames :
        /\ Returned("add_filter", <<field, operator>>, add_filter(Self, field, operator), <<>>)
        /\ UNCHANGED <<kind, loader, nloaders>>

SetOffset ==
    \E offset \in Vals :
        /\ Returned("set_offset", <<offset>>, set_offset(kind, Self, offset), <<>>)
        /\ UNCHANGED <<kind, loader, nloaders>>

SetLimit ==
    \E limit \in Vals :
        /\ Returned("set_limit", <<limit>>, set_limit(kind, Self, limit), <<>>)
        /\ UNCHANGED <<kind, loader, nloaders>>

SetPage ==
    \E page \in Vals, items_per_page \in Vals :
        LET r == set_page(kind, Self, page, items_per_page)
        IN  /\ Returned("set_page", <<page, items_per_page>>, r.b, r.trace)
            /\ UNCHANGED <<kind, loader, nloaders>>

Build ==
    /\ nloaders < MaxBuilds
    /\ LET r == build(kind, Self)
       IN  /\ Returned("build", <<>>, r.b, <<>>)
           /\ loader' = r.loader
           /\ nloaders' = nloaders + 1
    /\ UNCHANGED kind

\* ------------------------------------------------------------------ LoaderSpec and its containers
\* The heap is the sequence of the container objects allocated so far; a container's
\* address is its index. A dict holds its (key, value) pairs in insertion order, a
\* list its items. Sort, filter and extension instances are named objects; the
\* values of filterable_fields are the addresses of the per-field operator dicts.
Dict(items) == [type |-> "dict", items |-> items]
List(items) == [type |-> "list", items |-> items]

Keys(d) == [i \in 1..Len(d.items) |-> d.items[i][1]]
Has(d, key) == \E i \in 1..Len(d.items) : d.items[i][1] = key
Get(d, key) == d.items[CHOOSE i \in 1..Len(d.items) : d.items[i][1] = key][2]
Contains(l, item) == \E i \in 1..Len(l.items) : l.items[i] = item

\* d[key] = value: in place for a present key, at the end for a new one
Put(d, key, value) ==
    IF Has(d, key)
    THEN Dict([i \in 1..Len(d.items) |->
                  IF d.items[i][1] = key THEN <<key, value>> ELSE d.items[i]])
    ELSE Dict(Append(d.items, <<key, value>>))
\* del d[key]
Del(d, key) == Dict(SelectSeq(d.items, LAMBDA kv : kv[1] # key))
\* l.append(item)
ListAppend(l, item) == List(Append(l.items, item))
\* l.remove(item): the first equal item goes
ListRemove(l, item) ==
    LET i == CHOOSE j \in 1..Len(l.items) :
                 l.items[j] = item /\ \A m \in 1..(j - 1) : l.items[m] # item
    IN  List(SubSeq(l.items, 1, i - 1) \o SubSeq(l.items, i + 1, Len(l.items)))

\* dict(x): a new dict with the same pairs
dict(x) == Dict(x.items)
\* list(x): a new list of the items of a list, or of the keys of a dict
list(x) == IF x.type = "dict" THEN List(Keys(x)) ELSE List(x.items)

Alloc(h, container) == Append(h, container)
NoSpec == [sortable_fields |-> 0, default_sort_by |-> 0, filterable_fields |-> 0, extensions |-> 0]

\* {field: dict(filters) for field, filters in self.filterable_fields.items()}:
\* one new operator dict per field, and the pairs of the new outer dict
RECURSIVE copy_filters(_, _, _)
copy_filters(h, items, acc) ==
    IF items = <<>> THEN [heap |-> h, items |-> acc]
    ELSE LET h1 == Alloc(h, dict(h[Head(items)[2]]))
         IN  copy_filters(h1, Tail(items), Append(acc, <<Head(items)[1], Len(h1)>>))

\* clone copying only the outer dict of filterable_fields: dict(self.filterable_fields)
clone_shallow(h, self) ==
    LET h1 == Alloc(h, dict(h[self.sortable_fields]))
        h2 == Alloc(h1, list(h[self.default_sort_by]))
        h3 == Alloc(h2, dict(h[self.filterable_fields]))
        h4 == Alloc(h3, list(h[self.extensions]))
    IN  [heap |-> h4,
         spec |-> [sortable_fields |-> Len(h1), default_sort_by |-> Len(h2),
                   filterable_fields |-> Len(h3), extensions |-> Len(h4)]]

\* LoaderSpec.clone: the heap after the call and the new LoaderSpec
clone(h, self) ==
    LET h1 == Alloc(h, dict(h[self.sortable_fields]))
        h2 == Alloc(h1, list(h[self.default_sort_by]))
        f == copy_filters(h2, h[self.filterable_fields].items, <<>>)
        h3 == Alloc(f.heap, Dict(f.items))
        h4 == Alloc(h3, list(h[self.extensions]))
    IN  [heap |-> h4,
         spec |-> [sortable_fields |-> Len(h1), default_sort_by |-> Len(h2),
                   filterable_fields |-> Len(h3), extensions |-> Len(h4)]]

\* what a caller may put into the containers of a spec
FlatAttrs == {"sortable_fields", "extensions"}
ListAttrs == {"default_sort_by", "extensions"}
KeyPool(attr) ==
    IF attr = "sortable_fields" THEN {"created_at", "title"} ELSE {"with_author", "with_tags"}
InstanceOf(attr, key) ==
    IF attr = "sortable_fields" THEN "QuerySort#2" ELSE "LoaderExtension#2"
ItemPool(attr) ==
    IF attr = "default_sort_by"
    THEN {[sort |-> "created_at", direction |-> "ASC"], [sort |-> "title", direction |-> "DESC"]}
    ELSE {"with_author", "with_tags"}
FilterFieldPool == {"status", "title"}
FilterOperatorPool == {"eq", "like"}

InitSpecs ==
    /\ heap = << Dict(<< <<"created_at", "QuerySort#1">> >>),
                 List(<< [sort |-> "created_at", direction |-> "ASC"] >>),
                 Dict(<< <<"eq", "QueryFilter#1">> >>),
                 Dict(<< <<"eq", "QueryFilter#2">> >>),
                 Dict(<< <<"status", 3>>, <<"author_name", 4>> >>),
                 Dict(<< <<"with_author", "LoaderExtension#1">> >>) >>
    /\ s = [sortable_fields |-> 1, default_sort_by |-> 2,
            filterable_fields |-> 5, extensions |-> 6]
    /\ c = NoSpec
    /\ last = [op |-> "new", target |-> "none"]
    /\ nmut = 0

Targets == IF c = NoSpec THEN {"s"} ELSE {"s", "c"}
SpecOf(target) == IF target = "s" THEN s ELSE c

Mutated(op, target, h) ==
    /\ nmut < MaxMut
    /\ heap' = h
    /\ last' = [op |-> op, target |-> target]
    /\ nmut' = nmut + 1
    /\ UNCHANGED <<s, c>>

\* c = s.clone()
Clone ==
    /\ c = NoSpec
    /\ LET r == clone(heap, s)
       IN  /\ heap' = r.heap
           /\ c' = r.spec
    /\ last' = [op |-> "clone", target |-> "none"]
    /\ UNCHANGED <<s, nmut>>

\* spec.sortable_fields[key] = sort, spec.extensions[name] = extension (a dict only)
SetItem ==
    \E target \in Targets, attr \in FlatAttrs :
        \E key \in KeyPool(attr) :
            LET a == SpecOf(target)[attr]
            IN  /\ heap[a].type = "dict"
                /\ Mutated("setitem", target,
                           [heap EXCEPT ![a] = Put(@, key, InstanceOf(attr, key))])

\* del spec.sortable_fields[key], del spec.extensions[name] (a dict holding the key)
DelItem ==
    \E target \in Targets, attr \in FlatAttrs :
        \E key \in KeyPool(attr) :
            LET a == SpecOf(target)[attr]
            IN  /\ heap[a].type = "dict"
                /\ Has(heap[a], key)
                /\ Mutated("delitem", target, [heap EXCEPT ![a] = Del(@, key)])

\* spec.filterable_fields[field] = {"eq": filter}: a new operator dict for the field
SetFilterField ==
    \E target \in Targets, field \in FilterFieldPool :
        LET a == SpecOf(target).filterable_fields
            h1 == Alloc(heap, Dict(<< <<"eq", "QueryFilter#3">> >>))
        IN  Mutated("setfield", target, [h1 EXCEPT ![a] = Put(@, field, Len(h1))])

\* del spec.filterable_fields[field]
DelFilterField ==
    \E target \in Targets, field \in FilterFieldPool :
        LET a == SpecOf(target).filterable_fields
        IN  /\ Has(heap[a], field)
            /\ Mutated("delfield", target, [heap EXCEPT ![a] = Del(@, field)])

\* spec.filterable_fields[field][operator] = filter
SetFilterOperator ==
    \E target \in Targets, field \in FilterFieldPool, operator \in FilterOperatorPool :
        LET a == SpecOf(target).filterable_fields
        IN  /\ Has(heap[a], field)
            /\ Mutated("setoperator", target,
                       [heap EXCEPT ![Get(heap[a], field)] = Put(@, operator, "QueryFilter#4")])

\* del spec.filterable_fields[field][operator]
DelFilterOperator ==
    \E target \in Targets, field \in FilterFieldPool, operator \in FilterOperatorPool :
        LET a == SpecOf(target).filterable_fields
        IN  /\ Has(heap[a], field)
            /\ Has(heap[Get(heap[a], field)], operator)
            /\ Mutated("deloperator", target,
                       [heap EXCEPT ![Get(heap[a], field)] = Del(@, operator)])

\* spec.default_sort_by.append(item), spec.extensions.append(name) (a list only)
AppendItem ==
    \E target \in Targets, attr \in ListAttrs :
        \E item \in ItemPool(attr) :
            LET a == SpecOf(target)[attr]
            IN  /\ heap[a].type = "list"
                /\ Mutated("append", target, [heap EXCEPT ![a] = ListAppend(@, item)])

\* spec.default_sort_by.remove(item), spec.extensions.remove(name) (a list holding it)
RemoveItem ==
    \E target \in Targets, attr \in ListAttrs :
        \E item \in ItemPool(attr) :
            LET a == SpecOf(target)[attr]
            IN  /\ heap[a].type = "list"
                /\ Contains(heap[a], item)
                /\ Mutated("remove", target, [heap EXCEPT ![a] = ListRemove(@, item)])

\* what a spec holds, its containers read through the heap
View(h, spec) ==
    [sortable_fields |-> h[spec.sortable_fields],
     default_sort_by |-> h[spec.default_sort_by],
     filterable_fields |->
        [i \in 1..Len(h[spec.filterable_fields].items) |->
            <<h[spec.filterable_fields].items[i][1],
              h[h[spec.filterable_fields].items[i][2]]>>],
     extensions |-> h[spec.extensions]]

\* spec.<attr>[key]: the instance, or the exception the lookup raises
Lookup(h, a, key) ==
    IF h[a].type # "dict" THEN "TypeError"
    ELSE IF ~Has(h[a], key) THEN "KeyError"
    ELSE Get(h[a], key)
\* spec.filterable_fields[field][operator]
FilterLookup(h, spec, field, operator) ==
    IF ~Has(h[spec.filterable_fields], field) THEN "KeyError"
    ELSE Lookup(h, Get(h[spec.filterable_fields], field), operator)

\* ------------------------------------------------------------------ specifications
Init == (\E k \in {"simple", "complex"} : NewBuilder(k)) /\ InitSpecs

\* a session of filters, sorts and extensions, then build()
Next ==
    \/ ApplyExtension /\ UNCHANGED svars
    \/ AddSort /\ UNCHANGED svars
    \/ AddFilter /\ UNCHANGED svars
    \/ Build /\ UNCHANGED svars
Spec == Init /\ [][Next]_vars

\* a session of offset / limit / page settings, then build()
NextWindow ==
    \/ SetOffset /\ UNCHANGED svars
    \/ SetLimit /\ UNCHANGED svars
    \/ SetPage /\ UNCHANGED svars
    \/ Build /\ UNCHANGED svars
SpecWindow == Init /\ [][NextWindow]_vars

\* a LoaderSpec, its clone, and changes made to the containers of either
NextClone ==
    \/ Clone /\ UNCHANGED bvars
    \/ SetItem /\ UNCHANGED bvars
    \/ DelItem /\ UNCHANGED bvars
    \/ SetFilterField /\ UNCHANGED bvars
    \/ DelFilterField /\ UNCHANGED bvars
    \/ SetFilterOperator /\ UNCHANGED bvars
    \/ DelFilterOperator /\ UNCHANGED bvars
    \/ AppendItem /\ UNCHANGED bvars
    \/ RemoveItem /\ UNCHANGED bvars
\* no builder is at work here: one idle builder stands for it
InitClone == NewBuilder("simple") /\ InitSpecs
SpecClone == InitClone /\ [][NextClone]_vars

\* ------------------------------------------------------------------ claims: pagination
PageArg == call.args[1]
PerPageArg == call.args[2]

\* C1: for non-negative page and n, set_page(page, n) leaves the builder as
\* set_limit(n) followed by set_offset(page * n) leaves it, and the offset it asks
\* for is page * n, so that page 0 asks for offset 0.
C1_SetPageIsLimitThenOffset ==
    [][(call'.op = "set_page" /\ IsNonNeg(call'.args[1]) /\ IsNonNeg(call'.args[2])) =>
        LET page == call'.args[1]
            n == call'.args[2]
            expected == set_offset(kind, set_limit(kind, Self, n), IntV(page.n * n.n))
        IN  /\ query' = expected.query
            /\ applied' = expected.applied
            /\ call'.err = expected.err
            /\ call'.trace[2].a = IntV(page.n * n.n)
            /\ (page.n = 0 => call'.trace[2].a = IntV(0))]_vars

\* C1 witness: page 1 of 1 item per page on the simple builder: limit 1, offset 1
C1_Witness ==
    /\ call.op = "set_page" /\ kind = "simple"
    /\ PageArg = IntV(1) /\ PerPageArg = IntV(1)
    /\ query.limit = IntV(1) /\ query.offset = IntV(1)

\* C10: set_page calls set_limit(items_per_page) first and once; set_offset(page *
\* items_per_page) is called once after it exactly when set_limit returned; if
\* set_limit raises, the working query is as before the call; if set_limit returns
\* and set_offset raises, the working query is the one set_limit left.
C10_SetPageNotAtomic ==
    [][call'.op = "set_page" =>
        LET t == call'.trace
            page == call'.args[1]
            n == call'.args[2]
        IN  /\ Len(t) \in {1, 2}
            /\ t[1].m = "set_limit" /\ t[1].a = n
            /\ (Len(t) = 2 <=> t[1].ok)
            /\ (Len(t) = 2 => t[2].m = "set_offset" /\ t[2].a = Mul(page, n))
            /\ (~t[1].ok => call'.err # "none" /\ query' = query)
            /\ (Len(t) = 2 /\ ~t[2].ok =>
                    /\ call'.err # "none"
                    /\ query' = set_limit(kind, Self, n).query
                    /\ query'.offset = query.offset
                    /\ (kind = "simple" => query'.limit = n))
            /\ (Len(t) = 2 /\ t[2].ok => call'.err = "none")]_vars

\* C10 witness: set_page(nan, 1) on the simple builder: set_limit(1) returned,
\* set_offset(nan) raised, and the query keeps limit 1
C10_Witness ==
    /\ call.op = "set_page" /\ kind = "simple"
    /\ Len(call.trace) = 2 /\ call.trace[1].ok /\ ~call.trace[2].ok
    /\ call.err = "ValueError"
    /\ query.limit = IntV(1) /\ query.offset = None

\* C7: set_offset(v) and set_limit(v) with a negative v raise an input-validation
\* error at the call.
C7_NegativeRejected ==
    (call.op \in {"set_offset", "set_limit"} /\ IsNeg(call.args[1])) => call.err # "none"

\* C9: after set_limit(n) with n >= 0 the query a Loader is built from carries
\* limit n, and after set_offset(k) with k >= 0 it carries offset k, on both builders.
C9_WindowReachesBuiltQuery ==
    /\ (call.op = "set_limit" /\ IsNonNeg(call.args[1]))
            => build(kind, Self).loader.limit = call.args[1]
    /\ (call.op = "set_offset" /\ IsNonNeg(call.args[1]))
            => build(kind, Self).loader.offset = call.args[1]

SortsOf(trans) == SelectSeq(trans, LAMBDA t : t.piece = "sort")
DefaultSorts ==
    [i \in 1..Len(TheSpec.default_sort_by) |->
        SortTransform(TheSpec.default_sort_by[i].sort, TheSpec.default_sort_by[i].direction)]

\* C4: the query a Loader is bound to has the default_sort_by entries applied, in
\* declared order, if no add_sort was called before build(), and only the sorts of
\* the add_sort calls otherwise.
C4_DefaultSortAtBuild ==
    call.op = "build" =>
        SortsOf(loader.trans) =
            IF SortsOf(query.trans) = <<>> THEN DefaultSorts ELSE SortsOf(query.trans)

Required(t) ==
    IF t.piece = "sort" THEN TheSpec.sortable_fields[t.field].required_extensions
    ELSE IF t.piece = "filter" THEN TheSpec.filterable_fields[t.field][t.op].required_extensions
    ELSE <<>>
Undeclared(op, args) ==
    \/ op = "apply_extension" /\ args[1] \notin DOMAIN TheSpec.extensions
    \/ op = "add_sort" /\ args[1] \notin DOMAIN TheSpec.sortable_fields
    \/ op = "add_filter" /\ args[1] \notin DOMAIN TheSpec.filterable_fields
    \/ op = "add_filter" /\ args[1] \in DOMAIN TheSpec.filterable_fields
            /\ args[2] \notin DOMAIN TheSpec.filterable_fields[args[1]]

\* C5: add_filter with a field (or an operator of the field) that is not declared,
\* add_sort with a field that is not sortable and apply_extension with a name that
\* is no extension raise not-found and leave the working query and the applied
\* extensions as they were; a build() that follows raises nothing and binds the
\* Loader to that query.
C5_NotFoundLeavesState ==
    [][/\ Undeclared(call'.op, call'.args) =>
            /\ call'.err = "NotFound"
            /\ query' = query /\ applied' = applied
       /\ (call.err = "NotFound" /\ call'.op = "build") =>
            /\ call'.err = "none"
            /\ loader'.trans = query.trans
            /\ nloaders' = nloaders + 1]_vars

\* C5 witness: a call failed with not-found on a builder that had already applied
\* an extension and a filter, which are all still there
C5_Witness ==
    /\ call.err = "NotFound" /\ call.op = "add_filter" /\ call.args[1] = "missing"
    /\ applied = {"with_author"}
    /\ query.trans = <<ExtensionTransform("with_author"), FilterTransform("author_name", "eq")>>

ExtensionsIn(trans) == {trans[i].field : i \in {j \in 1..Len(trans) : trans[j].piece = "extension"}}
Session(q, a) ==
    LET t == q.trans
    IN  /\ \A i, j \in 1..Len(t) :
               (i < j /\ t[i].piece = "extension" /\ t[j].piece = "extension")
                   => t[i].field # t[j].field
        /\ a = ExtensionsIn(t)
        /\ \A i \in 1..Len(t) : \A r \in 1..Len(Required(t[i])) :
               \E j \in 1..(i - 1) : t[j] = ExtensionTransform(Required(t[i])[r])
ThePiece(op, args) ==
    IF op = "add_sort" THEN SortTransform(args[1], args[2]) ELSE FilterTransform(args[1], args[2])

\* C6: in one session each extension's transform is in the working query at most
\* once, and the applied set names exactly those; every filter or sort in the query
\* comes after each of its required extensions; a successful add_filter / add_sort
\* appends its required extensions that were not yet applied, in the listed order,
\* and then its own transform; apply_extension of an applied extension changes nothing.
C6_ExtensionsOnce ==
    [][/\ Session(query', applied')
       /\ (call'.op \in {"add_sort", "add_filter"} /\ call'.err = "none") =>
            query'.trans =
                query.trans
                \o [i \in 1..Len(SelectSeq(Required(ThePiece(call'.op, call'.args)),
                                           LAMBDA n : n \notin applied)) |->
                       ExtensionTransform(SelectSeq(Required(ThePiece(call'.op, call'.args)),
                                                    LAMBDA n : n \notin applied)[i])]
                \o <<ThePiece(call'.op, call'.args)>>
       /\ (call'.op = "apply_extension" /\ call'.args[1] \in applied) =>
            query' = query /\ applied' = applied]_vars

\* C6 witness: a filter and a sort that both require with_author were applied, and
\* the extension is in the query once, before both
C6_Witness ==
    query.trans = <<ExtensionTransform("with_author"),
                    FilterTransform("author_name", "eq"),
                    SortTransform("author_name", "ASC")>>

\* ------------------------------------------------------------------ claims: clone
\* C2: after c = s.clone(), a change made to a container of c leaves what s holds
\* unchanged, and a change made to a container of s leaves what c holds unchanged.
C2_CloneIndependent ==
    [][/\ (c # NoSpec /\ last'.target = "c") => View(heap', s') = View(heap, s)
       /\ (c # NoSpec /\ last'.target = "s") => View(heap', c') = View(heap, c)]_vars

\* C2 witness: an operator was added to the clone's status filters, and the
\* original's status filters have no such operator
C2_Witness ==
    /\ c # NoSpec /\ last.target = "c" /\ last.op = "setoperator"
    /\ FilterLookup(heap, c, "status", "like") = "QueryFilter#4"
    /\ FilterLookup(heap, s, "status", "like") = "KeyError"

\* C3: right after c = s.clone(), every sort field, every (field, operator) pair and
\* every extension name of s resolves in c to the instance it resolves to in s.
C3_CloneResolvesSame ==
    last.op = "clone" =>
        /\ \A i \in 1..Len(heap[s.sortable_fields].items) :
               LET key == heap[s.sortable_fields].items[i][1]
               IN  Lookup(heap, c.sortable_fields, key) = Lookup(heap, s.sortable_fields, key)
        /\ \A i \in 1..Len(heap[s.filterable_fields].items) :
               LET field == heap[s.filterable_fields].items[i][1]
                   filters == heap[heap[s.filterable_fields].items[i][2]]
               IN  \A j \in 1..Len(filters.items) :
                       FilterLookup(heap, c, field, filters.items[j][1])
                           = FilterLookup(heap, s, field, filters.items[j][1])
        /\ \A i \in 1..Len(heap[s.extensions].items) :
               LET name == heap[s.extensions].items[i][1]
               IN  Lookup(heap, c.extensions, name) = Lookup(heap, s.extensions, name)

====
